---- MODULE Spec2Model ----
(***************************************************************************)
(* The three ETL scripts of the music catalogue repository:                *)
(*   relational_database.py   CSV -> artists/albums/tracks -> PostgreSQL   *)
(*   document_database.py     CSV -> artist documents      -> MongoDB      *)
(*   document_database2.py    CSV -> track documents       -> MongoDB      *)
(* One run executes one script (prog) on one CSV file (csv).  A DataFrame  *)
(* is a sequence of rows, a row a record of its columns.  Only the columns *)
(* the transforms branch on or key by are kept; the remaining track        *)
(* attributes (title, genre, duration, ...) are copied through unchanged   *)
(* by every transform and are left out.                                    *)
(***************************************************************************)
EXTENDS Integers, Sequences, FiniteSets, TLC

\* Largest number of data rows of the CSV file.
MaxRows == 2
\* Largest number of times load() is called on one transformed dataset.
MaxLoads == 2

\* ------------------------------------------------------------ values
\* pandas' missing value, Python's None and pandas' NaT.  The text "None" is
\* ordinary data (keep_default_na=False), so the markers are spelt apart.
NaN == "<NaN>"
None == "<None>"
NaT == "<NaT>"

ArtistIds == {"a1", "a2"}
ArtistNames == {"Artist A", "Artist B"}
\* The album_id column of the file: the null token 'none' or an album key.
AlbumIdTexts == {"none", "alb1"}
AlbumNames == {"x", "Real Album"}
\* The release_date column of the file: one date text and one that is no date.
DateTexts == {"2020-01-01", "not-a-date"}

TrackIdOf == <<"t1", "t2", "t3", "t4">>

\* The rows a file may hold.  No transform reads album_name or release_date of
\* a row with is_single = True, so one value of each is enumerated for them.
CsvRowValues ==
    { r \in [artist_id : ArtistIds, artist_name : ArtistNames,
             album_id : AlbumIdTexts, album_name : AlbumNames,
             is_single : BOOLEAN, release_date : DateTexts] :
        r.is_single => (r.album_name = "x" /\ r.release_date = "2020-01-01") }

CsvFiles == UNION { [1..n -> CsvRowValues] : n \in 0..MaxRows }

Progs == {"relational", "artist", "track"}

\* ------------------------------------------------------------ pandas
\* Values in the order of their first appearance, each once (Series.unique).
RECURSIVE Pick(_, _, _)
Pick(s, I, i) ==
    IF i > Len(s) THEN <<>>
    ELSE (IF i \in I THEN <<s[i]>> ELSE <<>>) \o Pick(s, I, i + 1)

Unique(s) == Pick(s, {i \in DOMAIN s : \A j \in 1..(i - 1) : s[j] # s[i]}, 1)

Map(s, F(_)) == [i \in DOMAIN s |-> F(s[i])]

Range(s) == {s[i] : i \in DOMAIN s}

\* read_csv(na_values=['none'], keep_default_na=False): the token 'none' is the
\* missing value, every other text is kept.
ReadField(text) == IF text = "none" THEN NaN ELSE text

\* pd.to_datetime(errors='coerce'): a date text becomes a Timestamp, anything
\* else (missing, or text that is no date) becomes NaT.
ToDatetime(v) ==
    CASE v = "2020-01-01" -> "Timestamp(2020-01-01)"
      [] OTHER -> NaT

notna(v) == v \notin {NaN, NaT, None}

\* relational_database.extract: the columns as read, release_date left as text.
extract_relational(file) ==
    [i \in DOMAIN file |->
        [track_id |-> TrackIdOf[i],
         artist_id |-> ReadField(file[i].artist_id),
         artist_name |-> ReadField(file[i].artist_name),
         album_id |-> ReadField(file[i].album_id),
         album_name |-> ReadField(file[i].album_name),
         is_single |-> file[i].is_single,
         release_date |-> ReadField(file[i].release_date)]]

\* document_database.extract and document_database2.extract: as above, then
\* release_date parsed with errors coerced.
extract_document(file) ==
    [i \in DOMAIN file |->
        [track_id |-> TrackIdOf[i],
         artist_id |-> ReadField(file[i].artist_id),
         artist_name |-> ReadField(file[i].artist_name),
         album_id |-> ReadField(file[i].album_id),
         album_name |-> ReadField(file[i].album_name),
         is_single |-> file[i].is_single,
         release_date |-> ToDatetime(ReadField(file[i].release_date))]]

\* ------------------------------------------------------------ singles
\* uuid.uuid4(): the k-th identifier drawn in a run.  The identifiers drawn are
\* pairwise distinct and differ from every key of the file.
Uuid4 == <<"uuid-1", "uuid-2", "uuid-3", "uuid-4">>

\* df[df['is_single'] == True]['artist_id'].unique()
artists_with_singles(d) ==
    Unique(Map(SelectSeq(d, LAMBDA r : r.is_single = TRUE), LAMBDA r : r.artist_id))

\* {artist_id: uuid.uuid4() for artist_id in artists_with_singles}, as the
\* sequence of its items in insertion order.
artist_singles_album_map(d) ==
    LET a == artists_with_singles(d)
    IN  [k \in DOMAIN a |-> [artist_id |-> a[k], album_id |-> Uuid4[k]]]

MapKeys(m) == {m[k].artist_id : k \in DOMAIN m}
MapValues(m) == {m[k].album_id : k \in DOMAIN m}
\* dict.get(key, default)
MapGet(m, key, default) ==
    IF key \in MapKeys(m)
    THEN m[CHOOSE k \in DOMAIN m : m[k].artist_id = key].album_id
    ELSE default

\* A plausible slip: the album id of a single is left as read.
AssignKeepsInput(row, m) == row.album_id

\* relational_database.transform, the lambda of df.apply
assign_album_id_relational(row, m) ==
    IF row.is_single THEN MapGet(m, row.artist_id, row.album_id) ELSE row.album_id

\* document_database.transform.assign_album_id
assign_album_id_artist(row, m) ==
    IF row.is_single THEN MapGet(m, row.artist_id, None) ELSE row.album_id

\* document_database2.transform_to_track_documents.assign_album_id
assign_album_id_track(row, m) ==
    IF row.is_single THEN MapGet(m, row.artist_id, None) ELSE row.album_id

\* df['album_id'] = df.apply(..., axis=1), one operator per script
normalize_relational(d) ==
    LET m == artist_singles_album_map(d)
    IN  [i \in DOMAIN d |-> [d[i] EXCEPT !.album_id = assign_album_id_relational(d[i], m)]]

normalize_artist(d) ==
    LET m == artist_singles_album_map(d)
    IN  [i \in DOMAIN d |-> [d[i] EXCEPT !.album_id = assign_album_id_artist(d[i], m)]]

normalize_track(d) ==
    LET m == artist_singles_album_map(d)
    IN  [i \in DOMAIN d |-> [d[i] EXCEPT !.album_id = assign_album_id_track(d[i], m)]]

\* ------------------------------------------------------------ relational
\* DataFrame.drop_duplicates(): of equal rows the first is kept.
drop_duplicates(s) == Pick(s, {i \in DOMAIN s : \A j \in 1..(i - 1) : s[j] # s[i]}, 1)

\* A plausible slip: keep='last'.
DropDuplicatesKeepLast(s) ==
    Pick(s, {i \in DOMAIN s : \A j \in (i + 1)..Len(s) : s[j].album_id # s[i].album_id}, 1)

\* DataFrame.drop_duplicates(subset=['album_id']): of the rows with one
\* album_id the first is kept; missing values count as equal to each other.
drop_duplicates_album_id(s) ==
    Pick(s, {i \in DOMAIN s : \A j \in 1..(i - 1) : s[j].album_id # s[i].album_id}, 1)

\* df[['artist_id', 'artist_name']].drop_duplicates().set_index('artist_id')
artists_df(n) ==
    drop_duplicates(Map(n, LAMBDA r : [artist_id |-> r.artist_id,
                                       artist_name |-> r.artist_name]))

\* pd.DataFrame(singles_albums_data)
singles_albums_df(m) ==
    [k \in DOMAIN m |-> [album_id |-> m[k].album_id, album_name |-> "Singles",
                         release_date |-> None, artist_id |-> m[k].artist_id]]

\* df[df['is_single'] == False][['album_id', 'album_name', 'release_date', 'artist_id']]
albums_df(n) ==
    Map(SelectSeq(n, LAMBDA r : r.is_single = FALSE),
        LAMBDA r : [album_id |-> r.album_id, album_name |-> r.album_name,
                    release_date |-> r.release_date, artist_id |-> r.artist_id])

\* A plausible slip: the synthesized Singles albums are left out.
AllAlbumsWithoutSingles(n, m) == drop_duplicates_album_id(albums_df(n))

\* pd.concat([albums_df, singles_albums_df]).drop_duplicates(subset=['album_id'])
all_albums_df(n, m) == drop_duplicates_album_id(albums_df(n) \o singles_albums_df(m))

\* df[['track_id', ..., 'album_id', 'artist_id']].set_index('track_id')
tracks_df(n) ==
    Map(n, LAMBDA r : [track_id |-> r.track_id, album_id |-> r.album_id,
                       artist_id |-> r.artist_id])

\* relational_database.transform
transform_relational(d) ==
    LET m == artist_singles_album_map(d)
        n == normalize_relational(d)
    IN  [artists |-> artists_df(n), albums |-> all_albums_df(n, m), tracks |-> tracks_df(n)]

\* ------------------------------------------------------------ documents
\* The order in which groupby sorts the keys that occur.  The place of the
\* drawn uuids among the file's keys is an accident of the draw; no property
\* below reads the order of groups.
KeyOrder == <<"a1", "a2", "alb1", "uuid-1", "uuid-2", "uuid-3", "uuid-4">>

\* DataFrame.groupby(column): one group per key that occurs, keys sorted; rows
\* whose key is missing belong to no group (dropna=True is the default).
groupby_keys(col) == SelectSeq(KeyOrder, LAMBDA k : k \in Range(col) /\ notna(k))

\* The album entry of one album group of document_database.transform.
album_data(album_id, album_group, m) ==
    IF album_id \in MapValues(m)
    THEN [album_id |-> album_id, album_name |-> "Singles", release_date |-> None,
          tracks |-> Map(album_group, LAMBDA r : r.track_id)]
    ELSE [album_id |-> album_id, album_name |-> album_group[1].album_name,
          release_date |-> IF notna(album_group[1].release_date)
                           THEN album_group[1].release_date ELSE None,
          tracks |-> Map(album_group, LAMBDA r : r.track_id)]

\* The document of one artist group of document_database.transform.
artist_doc(artist_id, artist_group, m) ==
    LET keys == groupby_keys(Map(artist_group, LAMBDA r : r.album_id))
    IN  [id |-> artist_id,
         artist_name |-> artist_group[1].artist_name,
         albums |-> [b \in DOMAIN keys |->
                        album_data(keys[b],
                                   SelectSeq(artist_group, LAMBDA r : r.album_id = keys[b]),
                                   m)]]

\* document_database.transform
transform_artist(d) ==
    LET m == artist_singles_album_map(d)
        n == normalize_artist(d)
        keys == groupby_keys(Map(n, LAMBDA r : r.artist_id))
    IN  [a \in DOMAIN keys |->
            artist_doc(keys[a], SelectSeq(n, LAMBDA r : r.artist_id = keys[a]), m)]

\* The document of one row of document_database2.transform_to_track_documents.
track_doc(row) ==
    [id |-> row.track_id,
     artist |-> [artist_id |-> row.artist_id, artist_name |-> row.artist_name],
     album |-> [album_id |-> row.album_id,
                album_name |-> IF row.is_single THEN "Singles" ELSE row.album_name,
                release_date |-> IF row.is_single THEN None
                                 ELSE IF notna(row.release_date) THEN row.release_date
                                 ELSE None]]

\* document_database2.transform_to_track_documents
transform_to_track_documents(d) == Map(normalize_track(d), track_doc)

\* ------------------------------------------------------------ sinks
\* DataFrame.to_csv writes a missing value as the empty field, which COPY ...
\* WITH CSV reads as NULL.
IsNull(v) == v \in {NaN, None, NaT}

\* The tables of create_tables, each a set of rows.
EmptyTables == [artists |-> {}, albums |-> {}, tracks |-> {}]

KeyOf(table, row) ==
    CASE table = "artists" -> row.artist_id
      [] table = "albums" -> row.album_id
      [] table = "tracks" -> row.track_id

Keys(table, rows) == {KeyOf(table, r) : r \in rows}

\* What the schema of create_tables refuses in a COPY of `rows` into `table`,
\* the rows visible to the transaction being `seen`: a NULL or repeated
\* PRIMARY KEY, text that is no DATE, a REFERENCES target that is absent.
rejects(table, rows, seen) ==
    \/ \E i \in DOMAIN rows : IsNull(KeyOf(table, rows[i]))
    \/ \E i \in DOMAIN rows : KeyOf(table, rows[i]) \in Keys(table, seen[table])
    \/ \E i, j \in DOMAIN rows : i # j /\ KeyOf(table, rows[i]) = KeyOf(table, rows[j])
    \/ /\ table = "albums"
       /\ \E i \in DOMAIN rows :
            \/ ~IsNull(rows[i].release_date) /\ rows[i].release_date # "2020-01-01"
            \/ ~IsNull(rows[i].artist_id)
                 /\ rows[i].artist_id \notin Keys("artists", seen.artists)
    \/ /\ table = "tracks"
       /\ \E i \in DOMAIN rows :
            \/ ~IsNull(rows[i].album_id)
                 /\ rows[i].album_id \notin Keys("albums", seen.albums)
            \/ ~IsNull(rows[i].artist_id)
                 /\ rows[i].artist_id \notin Keys("artists", seen.artists)

\* A plausible slip: psycopg.connect(conn_string, autocommit=True).
AutocommitOn == TRUE

\* psycopg.connect(conn_string): a connection opens with autocommit off.
autocommit == FALSE

\* A plausible slip: albums are sent before artists.
AlbumsFirst == <<"albums", "artists", "tracks">>

\* load: insertion_order
insertion_order == <<"artists", "albums", "tracks">>

\* operations.ReplaceOne({"_id": doc["_id"]}, doc, upsert=True) applied to a
\* collection: the document with that id is replaced, or the document inserted.
ReplaceOne(c, doc) == {x \in c : x.id # doc.id} \cup {doc}

\* collection.bulk_write(requests), ordered: the first k requests applied.
RECURSIVE bulk_write(_, _, _)
bulk_write(c, docs, k) ==
    IF k = 0 THEN c ELSE ReplaceOne(bulk_write(c, docs, k - 1), docs[k])

\* ------------------------------------------------------------ state
VARIABLES
    prog,         \* the script that runs
    csv,          \* the data rows of music_data.csv
    pc,           \* where main() stands
    df,           \* the DataFrame extract returned
    dataframes,   \* what relational transform returned
    documents,    \* what a document transform returned
    idx,          \* load: position in insertion_order
    copied,       \* load: the tables a COPY was issued for, in order (this call)
    tx,           \* rows written by the open transaction, not yet committed
    db,           \* rows committed to PostgreSQL
    coll,         \* the documents of the MongoDB collection
    openConns,    \* connections/clients opened and not yet closed
    connected,    \* whether the run ever held a connection
    loadResults,  \* each call of load so far: "ok", "rejected" (the sink refused
                  \* the data) or "lost" (the sink could not be reached)
    snap,         \* the sinks as the first successful load left them
    outcome,      \* how main() ended
    error,        \* the exception raised in the run, "none" if none was
    exitStatus,   \* the exit status of the process, -1 while it runs
    \* synthetic_data.generate_music_data
    genPc,            \* where the generator stands
    num_records,      \* its first argument
    num_artists,      \* its second argument
    artists,          \* the pool _generate_artists returned
    albums,           \* the pool _generate_albums returned
    albumIdx,         \* the album the outer loop is at
    trackIdx,         \* the turn the inner loop is at
    records_yielded,  \* the counter of the same name
    yielded           \* the records yielded so far, in order

etlVars == <<prog, csv, pc, df, dataframes, documents, idx, copied, tx, db, coll,
             openConns, connected, loadResults, snap, outcome, error, exitStatus>>

genVars == <<genPc, num_records, num_artists, artists, albums, albumIdx, trackIdx,
             records_yielded, yielded>>

vars == <<etlVars, genVars>>

\* The generator is not running.
GenIdle ==
    /\ genPc = "idle"
    /\ num_records = 0
    /\ num_artists = 0
    /\ artists = <<>>
    /\ albums = <<>>
    /\ albumIdx = 1
    /\ trackIdx = 1
    /\ records_yielded = 0
    /\ yielded = <<>>

\* The status a script exits with after main() ended with `how`: main returns
\* normally from its except clauses as from its last line, and no script calls
\* sys.exit, so the interpreter exits with 0.
exit_status(how) == 0

NoFrames == [artists |-> <<>>, albums |-> <<>>, tracks |-> <<>>]

Init ==
    /\ prog \in Progs
    /\ csv \in CsvFiles
    /\ pc = "start"
    /\ df = <<>>
    /\ dataframes = NoFrames
    /\ documents = <<>>
    /\ idx = 1
    /\ copied = <<>>
    /\ tx = EmptyTables
    /\ db = EmptyTables
    /\ coll = {}
    /\ openConns = 0
    /\ connected = FALSE
    /\ loadResults = <<>>
    /\ snap = [db |-> EmptyTables, coll |-> {}]
    /\ outcome = "running"
    /\ error = "none"
    /\ exitStatus = -1
    /\ GenIdle

Snapshot(d, c) == IF Len(loadResults) = 0 THEN [db |-> d, coll |-> c] ELSE snap

\* ------------------------------------------------------------ relational_database.main
\* psycopg.connect + create_tables; OperationalError is caught by main.
RelConnect ==
    /\ prog = "relational" /\ pc = "start"
    /\ \E ok \in BOOLEAN :
        IF ok
        THEN /\ pc' = "extract"
             /\ openConns' = openConns + 1
             /\ connected' = TRUE
             /\ outcome' = outcome
        ELSE /\ pc' = "done"
             /\ outcome' = "error"
             /\ UNCHANGED <<openConns, connected>>
    /\ UNCHANGED <<prog, csv, df, dataframes, documents, idx, copied, tx, db, coll,
                   loadResults, snap>>
    /\ error' = IF pc' = "done" THEN "OperationalError" ELSE error
    /\ exitStatus' = IF pc' = "done" THEN exit_status(outcome') ELSE exitStatus
    /\ UNCHANGED genVars

\* extract(CSV_FILE_PATH); FileNotFoundError is re-raised.
RelExtract ==
    /\ prog = "relational" /\ pc = "extract"
    /\ \E found \in BOOLEAN :
        IF found
        THEN /\ df' = extract_relational(csv)
             /\ pc' = "transform"
        ELSE /\ pc' = "raised"
             /\ df' = df
    /\ UNCHANGED <<prog, csv, dataframes, documents, idx, copied, tx, db, coll,
                   openConns, connected, loadResults, snap, outcome>>
    /\ error' = IF pc' = "raised" THEN "FileNotFoundError" ELSE error
    /\ UNCHANGED exitStatus
    /\ UNCHANGED genVars

\* transform(raw_data); df['album_id'] is assigned in place, so the caller's
\* DataFrame holds the rewritten column afterwards.
RelTransform ==
    /\ prog = "relational" /\ pc = "transform"
    /\ dataframes' = transform_relational(df)
    /\ df' = normalize_relational(df)
    /\ pc' = "load"
    /\ idx' = 1
    /\ copied' = <<>>
    /\ UNCHANGED <<prog, csv, documents, tx, db, coll, openConns, connected,
                   loadResults, snap, outcome>>
    /\ UNCHANGED <<error, exitStatus>>
    /\ UNCHANGED genVars

Merge(t, table, rows) == [t EXCEPT ![table] = @ \cup Range(rows)]

Seen == [t \in {"artists", "albums", "tracks"} |-> db[t] \cup tx[t]]

\* load: one turn of the loop over insertion_order.  An empty DataFrame is
\* skipped; a COPY the schema refuses, or one the connection loses, raises.
RelCopy ==
    /\ prog = "relational" /\ pc = "load" /\ idx <= Len(insertion_order)
    /\ LET table == insertion_order[idx]
           rows == dataframes[table]
       IN  IF rows = <<>>
           THEN /\ idx' = idx + 1
                /\ UNCHANGED <<pc, copied, tx, db, loadResults>>
           ELSE \E lost \in BOOLEAN :
                 /\ copied' = Append(copied, table)
                 /\ IF lost \/ rejects(table, rows, Seen)
                    THEN /\ pc' = "raised"
                         /\ loadResults' = Append(loadResults,
                                IF rejects(table, rows, Seen) THEN "rejected" ELSE "lost")
                         /\ UNCHANGED <<idx, tx, db>>
                    ELSE /\ idx' = idx + 1
                         /\ IF autocommit
                            THEN db' = Merge(db, table, rows) /\ tx' = tx
                            ELSE tx' = Merge(tx, table, rows) /\ db' = db
                         /\ UNCHANGED <<pc, loadResults>>
    /\ UNCHANGED <<prog, csv, df, dataframes, documents, coll, openConns, connected,
                   snap, outcome>>
    /\ error' = IF pc' = "raised" THEN "psycopg.Error" ELSE error
    /\ UNCHANGED exitStatus
    /\ UNCHANGED genVars

\* load: conn.commit()
RelCommit ==
    /\ prog = "relational" /\ pc = "load" /\ idx > Len(insertion_order)
    /\ db' = Seen
    /\ tx' = EmptyTables
    /\ snap' = Snapshot(db', coll)
    /\ loadResults' = Append(loadResults, "ok")
    /\ pc' = "loaded"
    /\ UNCHANGED <<prog, csv, df, dataframes, documents, idx, copied, coll, openConns,
                   connected, outcome>>
    /\ UNCHANGED <<error, exitStatus>>
    /\ UNCHANGED genVars

\* load called once more with the same dataframes on the same connection.
RelLoadAgain ==
    /\ prog = "relational" /\ pc = "loaded" /\ Len(loadResults) < MaxLoads
    /\ pc' = "load"
    /\ idx' = 1
    /\ copied' = <<>>
    /\ UNCHANGED <<prog, csv, df, dataframes, documents, tx, db, coll, openConns,
                   connected, loadResults, snap, outcome>>
    /\ UNCHANGED <<error, exitStatus>>
    /\ UNCHANGED genVars

\* The end of `with psycopg.connect(...) as conn`: an exception rolls the open
\* transaction back, the connection is closed either way, and main prints.
RelExit ==
    /\ prog = "relational" /\ pc \in {"loaded", "raised"}
    /\ tx' = EmptyTables
    /\ openConns' = openConns - 1
    /\ outcome' = IF pc = "loaded" THEN "success" ELSE "error"
    /\ pc' = "done"
    /\ UNCHANGED <<prog, csv, df, dataframes, documents, idx, copied, db, coll,
                   connected, loadResults, snap>>
    /\ exitStatus' = exit_status(outcome')
    /\ UNCHANGED error
    /\ UNCHANGED genVars

\* ------------------------------------------------------------ document_database*.main
\* extract(CSV_FILE_PATH); FileNotFoundError is re-raised and caught by main.
DocExtract ==
    /\ prog \in {"artist", "track"} /\ pc = "start"
    /\ \E found \in BOOLEAN :
        IF found
        THEN /\ df' = extract_document(csv)
             /\ pc' = "transform"
        ELSE /\ pc' = "raised"
             /\ df' = df
    /\ UNCHANGED <<prog, csv, dataframes, documents, idx, copied, tx, db, coll,
                   openConns, connected, loadResults, snap, outcome>>
    /\ error' = IF pc' = "raised" THEN "FileNotFoundError" ELSE error
    /\ UNCHANGED exitStatus
    /\ UNCHANGED genVars

\* transform(raw_data) / transform_to_track_documents(raw_data); here too
\* df['album_id'] is assigned in place.
DocTransform ==
    /\ prog \in {"artist", "track"} /\ pc = "transform"
    /\ documents' = IF prog = "artist" THEN transform_artist(df)
                    ELSE transform_to_track_documents(df)
    /\ df' = IF prog = "artist" THEN normalize_artist(df) ELSE normalize_track(df)
    /\ pc' = "load"
    /\ UNCHANGED <<prog, csv, dataframes, idx, copied, tx, db, coll, openConns,
                   connected, loadResults, snap, outcome>>
    /\ UNCHANGED <<error, exitStatus>>
    /\ UNCHANGED genVars

\* load: MongoClient(mongo_uri), db, collection; a failure is re-raised.
DocConnect ==
    /\ prog \in {"artist", "track"} /\ pc = "load"
    /\ \E ok \in BOOLEAN :
        IF ok
        THEN /\ pc' = "connected"
             /\ openConns' = openConns + 1
             /\ connected' = TRUE
             /\ loadResults' = loadResults
        ELSE /\ pc' = "raised"
             /\ loadResults' = Append(loadResults, "lost")
             /\ UNCHANGED <<openConns, connected>>
    /\ UNCHANGED <<prog, csv, df, dataframes, documents, idx, copied, tx, db, coll,
                   snap, outcome>>
    /\ error' = IF pc' = "raised" THEN "ConnectionFailure" ELSE error
    /\ UNCHANGED exitStatus
    /\ UNCHANGED genVars

\* load, from `if not documents` on: an empty list returns at once; otherwise
\* bulk_write applies the requests in order, all of them or, when it fails,
\* those before the failing one, and `finally` closes the client.
DocWrite ==
    /\ prog \in {"artist", "track"} /\ pc = "connected"
    /\ IF documents = <<>>
       THEN /\ pc' = "returned"
            /\ loadResults' = Append(loadResults, "ok")
            /\ snap' = Snapshot(db, coll)
            /\ UNCHANGED <<coll, openConns>>
       ELSE \E k \in 0..Len(documents) :
             /\ coll' = bulk_write(coll, documents, k)
             /\ openConns' = openConns - 1
             /\ IF k = Len(documents)
                THEN /\ pc' = "returned"
                     /\ loadResults' = Append(loadResults, "ok")
                     /\ snap' = Snapshot(db, coll')
                ELSE /\ pc' = "raised"
                     /\ loadResults' = Append(loadResults, "lost")
                     /\ snap' = snap
    /\ UNCHANGED <<prog, csv, df, dataframes, documents, idx, copied, tx, db,
                   connected, outcome>>
    /\ error' = IF pc' = "raised" THEN "BulkWriteError" ELSE error
    /\ UNCHANGED exitStatus
    /\ UNCHANGED genVars

\* load called once more with the same documents.
DocLoadAgain ==
    /\ prog \in {"artist", "track"} /\ pc = "returned" /\ Len(loadResults) < MaxLoads
    /\ pc' = "load"
    /\ UNCHANGED <<prog, csv, df, dataframes, documents, idx, copied, tx, db, coll,
                   openConns, connected, loadResults, snap, outcome>>
    /\ UNCHANGED <<error, exitStatus>>
    /\ UNCHANGED genVars

\* main: the success message, or `except Exception` printing the error.
DocExit ==
    /\ prog \in {"artist", "track"} /\ pc \in {"returned", "raised"}
    /\ outcome' = IF pc = "returned" THEN "success" ELSE "error"
    /\ pc' = "done"
    /\ UNCHANGED <<prog, csv, df, dataframes, documents, idx, copied, tx, db, coll,
                   openConns, connected, loadResults, snap>>
    /\ exitStatus' = exit_status(outcome')
    /\ UNCHANGED error
    /\ UNCHANGED genVars

Next ==
    \/ RelConnect
    \/ RelExtract
    \/ RelTransform
    \/ RelCopy
    \/ RelCommit
    \/ RelLoadAgain
    \/ RelExit
    \/ DocExtract
    \/ DocTransform
    \/ DocConnect
    \/ DocWrite
    \/ DocLoadAgain
    \/ DocExit

Spec == Init /\ [][Next]_vars

\* ------------------------------------------------------------ synthetic_data
\* Largest num_records and num_artists the generator is called with.
MaxRecords == 18
MaxArtists == 2
\* Largest number of albums drawn for an artist and of tracks drawn for an album.
AlbumCap == 2
TrackCap == 4

\* _generate_albums: random.randint(2, 10) albums for an artist, each with
\* random.randint(4, 20) tracks.
MinAlbums == 2
MaxAlbums == 10
MinTracks == 4
MaxTracks == 20

Min(a, b) == IF a <= b THEN a ELSE b

AlbumsPerArtist == MinAlbums..Min(MaxAlbums, AlbumCap)
TracksPerAlbum == MinTracks..Min(MaxTracks, TrackCap)

\* _generate_artists: num_artists artists, the k-th with the k-th uuid drawn.
generate_artists(n) == [k \in 1..n |-> k]

\* The albums _generate_albums can draw for one artist.
ArtistAlbums(artist_id) ==
    UNION { [1..k -> [artist_id : {artist_id}, num_tracks : TracksPerAlbum]] :
              k \in AlbumsPerArtist }

RECURSIVE Concat(_, _)
Concat(f, k) == IF k = 0 THEN <<>> ELSE Concat(f, k - 1) \o f[k]

\* _generate_albums: the pools it can return, the albums of the artists one
\* after the other in the order of the artists.
generate_albums(pool) ==
    { Concat(f, Len(pool)) :
        f \in { g \in [DOMAIN pool -> UNION { ArtistAlbums(pool[k]) : k \in DOMAIN pool }] :
                  \A k \in DOMAIN pool : g[k] \in ArtistAlbums(pool[k]) } }

\* A plausible slip: `>` for `>=`.
LimitReachedLate(y, n) == y > n

\* generate_music_data: `if records_yielded >= num_records: return`
limit_reached(y, n) == y >= n

\* The ETL scripts are not running.
EtlIdle ==
    /\ prog = "none"
    /\ csv = <<>>
    /\ pc = "idle"
    /\ df = <<>>
    /\ dataframes = NoFrames
    /\ documents = <<>>
    /\ idx = 1
    /\ copied = <<>>
    /\ tx = EmptyTables
    /\ db = EmptyTables
    /\ coll = {}
    /\ openConns = 0
    /\ connected = FALSE
    /\ loadResults = <<>>
    /\ snap = [db |-> EmptyTables, coll |-> {}]
    /\ outcome = "running"
    /\ error = "none"
    /\ exitStatus = -1

\* generate_music_data(num_records, num_artists) has been called.
InitGen ==
    /\ EtlIdle
    /\ genPc = "start"
    /\ num_records \in 0..MaxRecords
    /\ num_artists \in 0..MaxArtists
    /\ artists = <<>>
    /\ albums = <<>>
    /\ albumIdx = 1
    /\ trackIdx = 1
    /\ records_yielded = 0
    /\ yielded = <<>>

\* generate_music_data up to the first loop: the pools are generated.
GenSetup ==
    /\ genPc = "start"
    /\ artists' = generate_artists(num_artists)
    /\ albums' \in generate_albums(artists')
    /\ genPc' = "albums"
    /\ UNCHANGED <<num_records, num_artists, albumIdx, trackIdx, records_yielded, yielded>>
    /\ UNCHANGED etlVars

\* One turn of `for album in albums: for _ in range(album['num_tracks'])`: the
\* loops advance, or the generator returns at the limit, or it yields a track
\* of the album.
GenAlbumTrack ==
    /\ genPc = "albums"
    /\ IF albumIdx > Len(albums)
       THEN /\ genPc' = "singles"
            /\ UNCHANGED <<albumIdx, trackIdx, records_yielded, yielded>>
       ELSE IF trackIdx > albums[albumIdx].num_tracks
       THEN /\ albumIdx' = albumIdx + 1
            /\ trackIdx' = 1
            /\ UNCHANGED <<genPc, records_yielded, yielded>>
       ELSE IF limit_reached(records_yielded, num_records)
       THEN /\ genPc' = "returned"
            /\ UNCHANGED <<albumIdx, trackIdx, records_yielded, yielded>>
       ELSE /\ yielded' = Append(yielded, [artist_id |-> albums[albumIdx].artist_id,
                                           album |-> albumIdx,
                                           is_single |-> FALSE])
            /\ records_yielded' = records_yielded + 1
            /\ trackIdx' = trackIdx + 1
            /\ UNCHANGED <<genPc, albumIdx>>
    /\ UNCHANGED <<num_records, num_artists, artists, albums>>
    /\ UNCHANGED etlVars

\* One turn of `while records_yielded < num_records`: random.choice(artists)
\* raises IndexError on an empty pool, otherwise a single of the chosen artist
\* is yielded; when the condition fails the generator ends.
GenSingle ==
    /\ genPc = "singles"
    /\ IF records_yielded < num_records
       THEN IF artists = <<>>
            THEN /\ genPc' = "raised"
                 /\ UNCHANGED <<records_yielded, yielded>>
            ELSE \E a \in DOMAIN artists :
                  /\ yielded' = Append(yielded, [artist_id |-> artists[a],
                                                 album |-> 0,
                                                 is_single |-> TRUE])
                  /\ records_yielded' = records_yielded + 1
                  /\ genPc' = genPc
       ELSE /\ genPc' = "returned"
            /\ UNCHANGED <<records_yielded, yielded>>
    /\ UNCHANGED <<num_records, num_artists, artists, albums, albumIdx, trackIdx>>
    /\ UNCHANGED etlVars

NextGen ==
    \/ GenSetup
    \/ GenAlbumTrack
    \/ GenSingle

SpecGen == InitGen /\ [][NextGen]_vars

\* ------------------------------------------------------------ properties
\* The transform of the running script has returned (when the run ended before
\* it, df is empty and what follows holds of no row).
AfterTransform == pc \notin {"start", "extract", "transform"}

AlbumKeys == {dataframes.albums[i].album_id : i \in DOMAIN dataframes.albums}
ArtistKeys == {dataframes.artists[i].artist_id : i \in DOMAIN dataframes.artists}

\* C1: in the output of the relational transform every album_id of a tracks
\* row is the key of an albums row, and every artist_id of a tracks row or of
\* an albums row is the key of an artists row.
C1_ReferentialCompleteness ==
    prog = "relational" =>
        /\ \A i \in DOMAIN dataframes.tracks :
              /\ dataframes.tracks[i].album_id \in AlbumKeys
              /\ dataframes.tracks[i].artist_id \in ArtistKeys
        /\ \A i \in DOMAIN dataframes.albums :
              dataframes.albums[i].artist_id \in ArtistKeys

\* The relational transform has returned row-sets for a single (whose album is
\* synthesized) and for an album track.
C1_Witness ==
    /\ prog = "relational" /\ AfterTransform
    /\ \E i, j \in DOMAIN dataframes.tracks :
          /\ dataframes.tracks[i].album_id \in Range(Uuid4)
          /\ dataframes.tracks[j].album_id = "alb1"

\* C2: after the singles normalization of each of the three transforms, two
\* rows with is_single = true and one artist_id carry one album_id, and a row
\* with is_single = false carries the album_id that was read for it; the tracks
\* row-set and the track documents carry the same album_id as the rows.
C2_SinglesInvariant ==
    AfterTransform =>
        /\ \A i, j \in DOMAIN df :
              (df[i].is_single /\ df[j].is_single /\ df[i].artist_id = df[j].artist_id)
                  => df[i].album_id = df[j].album_id
        /\ \A i \in DOMAIN df :
              ~df[i].is_single => df[i].album_id = ReadField(csv[i].album_id)
        /\ prog = "relational" =>
              \A i \in DOMAIN df : dataframes.tracks[i].album_id = df[i].album_id
        /\ prog = "track" =>
              \A i \in DOMAIN df : documents[i].album.album_id = df[i].album_id

\* Two singles of one artist whose album_id columns differed in the file have
\* been normalized.
C2_Witness ==
    /\ AfterTransform
    /\ \E i, j \in DOMAIN df :
          /\ df[i].is_single /\ df[j].is_single
          /\ df[i].artist_id = df[j].artist_id
          /\ csv[i].album_id # csv[j].album_id

\* The places (artist document, album entry, position) at which track t occurs
\* in the artist documents.
Occurrences(t) ==
    { p \in { <<a, b, k>> : a \in DOMAIN documents, b \in 1..MaxRows + 2,
                            k \in 1..MaxRows + 2 } :
        /\ p[2] \in DOMAIN documents[p[1]].albums
        /\ p[3] \in DOMAIN documents[p[1]].albums[p[2]].tracks
        /\ documents[p[1]].albums[p[2]].tracks[p[3]] = t }

\* C3: the artist-nested transform places every input track in exactly one
\* album group.
C3_GroupingComplete ==
    (prog = "artist" /\ AfterTransform) =>
        \A i \in DOMAIN df : Cardinality(Occurrences(df[i].track_id)) = 1

LastResult == loadResults[Len(loadResults)]

\* C4: when a load that succeeded is followed by a load of the same dataset,
\* the sink does not refuse the second load, and a second load that completes
\* leaves the sink as the first left it.
C4_LoadTwiceIsLoadOnce ==
    (Len(loadResults) >= 2 /\ loadResults[1] = "ok") =>
        /\ LastResult # "rejected"
        /\ LastResult = "ok" => (db = snap.db /\ coll = snap.coll)

\* C5: the rows the relational load has committed are those of all three
\* row-sets or of none.
C5_AllOrNothing ==
    prog = "relational" =>
        \/ \A t \in DOMAIN db : db[t] = {}
        \/ \A t \in DOMAIN db : Range(dataframes[t]) \subseteq db[t]

\* A relational load failed after at least one COPY had gone through, and the
\* run has ended.
C5_Witness ==
    /\ prog = "relational" /\ pc = "done" /\ outcome = "error"
    /\ Len(copied) >= 2
    /\ db = EmptyTables

\* C6: a run that held a connection has released it when it ends.
C6_AlwaysReleased == (pc = "done" /\ connected) => openConns = 0

\* C7: the artists row-set has exactly one row for each artist_id of the input.
C7_OneRowPerArtist ==
    (prog = "relational" /\ AfterTransform) =>
        /\ ArtistKeys = {df[i].artist_id : i \in DOMAIN df}
        /\ \A i, j \in DOMAIN dataframes.artists :
              dataframes.artists[i].artist_id = dataframes.artists[j].artist_id => i = j

\* The first row of df that is no single and carries album_id a.
FirstNonSingle(a) ==
    CHOOSE i \in DOMAIN df :
        /\ ~df[i].is_single /\ df[i].album_id = a
        /\ \A j \in 1..(i - 1) : df[j].is_single \/ df[j].album_id # a

\* C8: the albums row-set has at most one row for an album_id, and the row of
\* an album_id that a non-single row carries is taken from the first such row.
C8_RealAlbumFirst ==
    (prog = "relational" /\ AfterTransform) =>
        /\ \A i, j \in DOMAIN dataframes.albums :
              dataframes.albums[i].album_id = dataframes.albums[j].album_id => i = j
        /\ \A i \in DOMAIN df :
              ~df[i].is_single =>
                  LET f == df[FirstNonSingle(df[i].album_id)]
                  IN  \E k \in DOMAIN dataframes.albums :
                        dataframes.albums[k] =
                            [album_id |-> f.album_id, album_name |-> f.album_name,
                             release_date |-> f.release_date, artist_id |-> f.artist_id]

\* Two non-single rows carry one album_id under different album names.
C8_Witness ==
    /\ prog = "relational" /\ AfterTransform
    /\ \E i, j \in DOMAIN df :
          /\ i < j /\ ~df[i].is_single /\ ~df[j].is_single
          /\ df[i].album_id = df[j].album_id
          /\ df[i].album_name # df[j].album_name

\* C9: within one relational load a COPY for albums is issued only after the
\* one for artists, and a COPY for tracks only after the one for albums; what
\* is issued is issued once; an empty row-set gets no COPY, and a load of
\* empty row-sets is never refused.
C9_DependencyOrder ==
    prog = "relational" =>
        /\ \A i, j \in DOMAIN copied : i # j => copied[i] # copied[j]
        /\ \A i \in DOMAIN copied :
              /\ dataframes[copied[i]] # <<>>
              /\ copied[i] = "albums" =>
                    (dataframes.artists = <<>> \/ \E j \in 1..(i - 1) : copied[j] = "artists")
              /\ copied[i] = "tracks" =>
                    (dataframes.albums = <<>> \/ \E j \in 1..(i - 1) : copied[j] = "albums")
        /\ (AfterTransform /\ df = <<>>) =>
              (copied = <<>> /\ "rejected" \notin Range(loadResults))

\* A load has issued all three COPYs.
C9_Witness ==
    /\ prog = "relational"
    /\ copied = <<"artists", "albums", "tracks">>

\* The release_date text of row i of the file is no date.
Unparseable(i) == csv[i].release_date \notin {"2020-01-01", "none"}

\* C10: a row whose release_date is unparseable yields release_date = null in
\* the albums row made from it (it is the first row of its album_id), in the
\* album entry made from it (it is the first track of its album group) and in
\* its album snapshot.
C10_UnparseableDateIsNull ==
    AfterTransform =>
        \A i \in DOMAIN df :
            (~df[i].is_single /\ Unparseable(i)) =>
                /\ prog = "relational" =>
                      \A k \in DOMAIN dataframes.albums :
                          (dataframes.albums[k].album_id = df[i].album_id
                             /\ FirstNonSingle(df[i].album_id) = i)
                              => IsNull(dataframes.albums[k].release_date)
                /\ prog = "track" => documents[i].album.release_date = None
                /\ prog = "artist" =>
                      \A a \in DOMAIN documents : \A b \in DOMAIN documents[a].albums :
                          (documents[a].id = df[i].artist_id
                             /\ documents[a].albums[b].album_id = df[i].album_id
                             /\ documents[a].albums[b].tracks[1] = df[i].track_id)
                              => documents[a].albums[b].release_date = None

\* C11: a run of any of the three scripts in which extract, transform or load
\* raised ends with the error printed by main and with a non-zero exit status,
\* never as a success.
C11_ErrorsEndInFailure ==
    (pc = "done" /\ error # "none") => (outcome = "error" /\ exitStatus # 0)

\* What holds of the records yielded so far: they are counted by
\* records_yielded and are at most num_records, each carries an artist of the
\* pool, and no album record follows a single.
YieldedWellFormed ==
    /\ Len(yielded) = records_yielded
    /\ records_yielded <= num_records
    /\ \A i \in DOMAIN yielded : yielded[i].artist_id \in Range(artists)
    /\ \A i, j \in DOMAIN yielded :
          (i < j /\ yielded[i].is_single) => yielded[j].is_single

GenEnded == genPc \in {"returned", "raised"}

\* C12 as stated: for all num_records >= 0 and num_artists >= 0 the generator
\* ends by returning, having yielded exactly num_records records, each with an
\* artist of the pool, album records before singles.
C12_AllArguments ==
    /\ genPc # "raised"
    /\ GenEnded => (Len(yielded) = num_records /\ YieldedWellFormed)

\* C12, amended: for num_artists >= 1, or num_records = 0, the generator never
\* raises, can take a step until it has returned, and has then yielded exactly
\* num_records records; whatever the arguments, the records yielded carry
\* artists of the pool, album records before singles, and are never more than
\* num_records; with num_artists = 0 and num_records > 0 it ends by raising
\* with nothing yielded.
C12_Generator ==
    /\ genPc # "idle" => YieldedWellFormed
    /\ genPc = "returned" => Len(yielded) = num_records
    /\ (genPc \notin {"idle", "returned", "raised"}) => ENABLED NextGen
    /\ (num_artists >= 1 \/ num_records = 0) => genPc # "raised"
    /\ (GenEnded /\ num_artists = 0 /\ num_records > 0)
          => (genPc = "raised" /\ yielded = <<>>)

\* The generator has returned after album records of two artists and a single.
C12_Witness ==
    /\ genPc = "returned"
    /\ num_artists = 2
    /\ Len(yielded) = num_records
    /\ \E i, j \in DOMAIN yielded :
          /\ ~yielded[i].is_single /\ yielded[j].is_single
          /\ yielded[i].artist_id # yielded[j].artist_id

====
